---- MODULE Spec2Model ----
(***************************************************************************)
(* Model of the ingestion engine of prediction-market-analysis:            *)
(*   - PolymarketClient offset pagination (iter_markets, iter_trades),     *)
(*   - PolymarketClient cursor pagination (get_all_market_trades),         *)
(*   - the chunked persistence of the weather indexers (Kalshi trades,     *)
(*     Polymarket markets, trades and prices),                             *)
(*   - run() of both weather indexers: discovery, then the fetch phases    *)
(*     over a thread pool drained by one consumer,                         *)
(*   - _parse_token_ids.                                                   *)
(* Five specifications share the module: SpecPage, SpecCursor, Spec,       *)
(* SpecRun and SpecParse.                                                  *)
(***************************************************************************)
EXTENDS Integers, Sequences, FiniteSets, TLC

\* ------------------------------------------------------------------ bounds
\* Largest small page size a caller passes (besides the values around the cap).
MaxLimit == 3
\* Largest small number of items the server holds.
MaxTotal == 7
\* Largest number of calls of get_market_trades the server answers with a cursor.
MaxCalls == 4
\* Records per flushed chunk: the code's batch_size and chunk_size are both
\* 10000; the model runs them scaled down.
batch_size == 2
chunk_size == 2
\* Largest work set (tickers, tokens or pages) of one run.
MaxItems == 2
\* Largest number of records one fetch (or one page) contributes.
MaxRecs == 4
\* Runs of one indexer against the same output directory.
MaxRuns == 2
\* Longest argument of _parse_token_ids, in characters.
MaxChars == 5
\* The interpreter's limit on the digits of an integer literal it converts
\* (4300) and on the nesting its JSON scanner descends into (the recursion
\* limit); the model runs both scaled down.
MaxStrDigits == 3
RecursionLimit == 3
\* Chunk writes that raise, over the runs of one behaviour.
MaxFaults == 1
\* Worker threads of the pool: max_workers defaults to 10 (Kalshi) and 5
\* (Polymarket); the model runs it scaled down.
max_workers == 2
\* Largest number of page requests discovery gets answered.
MaxPages == 2
\* Largest number of weather markets discovery finds.
MaxFound == 3
\* Largest number of records one worker fetch returns.
MaxFetched == 2

\* --------------------------------------------------------- program constants
\* get_trades: params = {"limit": min(limit, 500), ...}
MAX_TRADES_LIMIT == 500
\* "next_offset is -1 when done"
DONE_OFFSET == -1

\* Python's None, and the reserved cursor of the CLOB API.
None == "None"
SENTINEL_CURSOR == "LTE="

VARIABLES
  \* offset pagination (one generator run)
  api,             \* "markets" (iter_markets) | "trades" (iter_trades) | "none"
  limit,           \* the generator's limit argument
  total,           \* items the server holds
  current_offset,  \* the generator's local current_offset
  gen_pc,          \* "run": inside the while loop | "done": generator ended
  requests,        \* history: the params of every page request issued
  yields,          \* history: every tuple yielded, as [offset, n, next_offset]
  \* cursor pagination (one call of get_all_market_trades)
  cur_pc,          \* "loop" | "done" (returned) | "raised" | "none"
  cursor,          \* the local variable cursor
  n_all_trades,    \* len(all_trades)
  calls,           \* history: the cursor parameter of every request (None: absent)
  responses,       \* history: every response, as [kind, n, next_cursor]
  \* the persistence of one indexer phase, run after run on one directory
  indexer,         \* "kalshi_trades" | "poly_trades" | "poly_markets" | "poly_prices" |
                   \* "kalshi_markets" (run() only) | "none"
  pc,              \* "idle" | "loop" | "final" | "done" | "failed"
  run,             \* runs started so far
  n_left,          \* completions (or pages) the loop has still to handle
  all_trades,      \* the buffer (all_trades, all_weather_records, all_prices)
  total_saved,     \* total_saved
  next_chunk_idx,  \* next_chunk_idx (chunks_saved for the markets phase)
  dir,             \* the output directory: file name -> rows of the file
  dir0,            \* history: the directory as the run found it
  appended,        \* history: the records put into the buffer, in order
  writes,          \* history: the chunk writes of the run, as [name, rows, ok]
  faults,          \* history: chunk writes that raised
  finalized,       \* history: times the run reached its final flush (after the loop)
  pbar_n,          \* the progress bar's counter (pbar.n)
  \* one call of run(): discovery, then the fetch phases over a worker pool
  app,             \* "kalshi" | "poly" | "none"
  rpc,             \* run(): "phases" | "returned" | "raised" | "none"
  page_requests,   \* history: page requests issued by discovery
  found,           \* keys of the weather markets discovery found, in order
  tasks,           \* the futures of the fetch phase, in submission order
  reported,        \* history: tasks the consumer reported as failed
  clients,         \* the HTTP clients created and not closed, by owner
  \* one call of _parse_token_ids
  clob_token_ids,  \* the argument, a string as the sequence of its characters
  parse_pc,        \* "call" | "returned" | "raised" | "none"
  token_ids,       \* the list returned
  parse_exc        \* the exception that left the call (None: none did)

pvars == <<api, limit, total, current_offset, gen_pc, requests, yields>>
cvars == <<cur_pc, cursor, n_all_trades, calls, responses>>
wvars == <<indexer, pc, run, n_left, all_trades, total_saved, next_chunk_idx,
           dir, dir0, appended, writes, faults, finalized, pbar_n>>
rvars == <<app, rpc, page_requests, found, tasks, reported, clients>>
tvars == <<clob_token_ids, parse_pc, token_ids, parse_exc>>

\* ------------------------------------------------------------------ helpers
Min(a, b) == IF a < b THEN a ELSE b

Max(a, b) == IF a > b THEN a ELSE b

Ceil(n, p) == (n + p - 1) \div p

Last(s) == s[Len(s)]

\* ======================================================== offset pagination
\* The server of the claims: min(requested, total - offset) items at offset.
ServerPage(requested, offset) == Max(0, Min(requested, total - offset))

\* get_markets passes limit through; get_trades caps it at 500.
MarketsPageSize(lim) == lim

TradesPageSize(lim) == Min(lim, MAX_TRADES_LIMIT)

\* next_offset = current_offset + len(page)
NextOffsetStuck(cur, n) == cur

NextOffset(cur, n) == cur + n

\* `if len(markets) < limit: break`
PageIsShortOrFull(n, lim) == n <= lim

PageIsShort(n, lim) == n < lim

\* One iteration of the while loop of iter_markets / iter_trades: the page
\* request, the yield, and the loop's exit tests.
IterStep(requested) ==
  LET n == ServerPage(requested, current_offset)
      next_offset == NextOffset(current_offset, n)
  IN /\ gen_pc = "run"
     /\ requests' = Append(requests, [limit |-> requested, offset |-> current_offset])
     /\ IF n = 0
        THEN /\ yields' = Append(yields, [offset |-> current_offset, n |-> 0,
                                          next_offset |-> DONE_OFFSET])
             /\ gen_pc' = "done"
             /\ UNCHANGED current_offset
        ELSE /\ yields' = Append(yields, [offset |-> current_offset, n |-> n,
                                          next_offset |-> next_offset])
             /\ IF PageIsShort(n, limit)
                THEN gen_pc' = "done" /\ UNCHANGED current_offset
                ELSE gen_pc' = "run" /\ current_offset' = next_offset
     /\ UNCHANGED <<api, limit, total>>

IterMarkets ==
  api = "markets" /\ IterStep(MarketsPageSize(limit)) /\ UNCHANGED <<cvars, wvars, rvars, tvars>>

IterTrades ==
  api = "trades" /\ IterStep(TradesPageSize(limit)) /\ UNCHANGED <<cvars, wvars, rvars, tvars>>

Limits == (1..MaxLimit) \cup {MAX_TRADES_LIMIT, MAX_TRADES_LIMIT + 1}

Totals == (0..MaxTotal) \cup {MAX_TRADES_LIMIT, MAX_TRADES_LIMIT + 1, 2 * MAX_TRADES_LIMIT}

PageInit ==
  /\ api \in {"markets", "trades"}
  /\ limit \in Limits
  /\ total \in Totals
  /\ current_offset = 0
  /\ gen_pc = "run"
  /\ requests = <<>>
  /\ yields = <<>>

PageIdle ==
  /\ api = "none" /\ limit = 1 /\ total = 0 /\ current_offset = 0
  /\ gen_pc = "done" /\ requests = <<>> /\ yields = <<>>

\* ======================================================== cursor pagination
\* What the CLOB API may answer: a dict with "data" and "next_cursor" (absent,
\* the sentinel, empty, or a real cursor), a bare list, or an error.
ServerCursors == {None, SENTINEL_CURSOR, "", "c1", "c2"}

ResponseKinds == {"dict", "list", "error"}

\* `if cursor: params["cursor"] = cursor`
Truthy(c) == c # None /\ c # ""

CursorParam(c) == IF Truthy(c) THEN c ELSE None

\* get_market_trades: the next_cursor it returns for a response.
KeepCursor(kind, raw) == IF kind = "dict" THEN raw ELSE None

NormalizeCursor(kind, raw) ==
  IF kind = "dict"
  THEN IF raw = SENTINEL_CURSOR THEN None ELSE raw
  ELSE None

\* One iteration of the while loop of get_all_market_trades.
GetMarketTrades ==
  /\ cur_pc = "loop"
  /\ Len(calls) < MaxCalls
  /\ \E kind \in ResponseKinds, n \in 0..1, raw \in ServerCursors :
       /\ calls' = Append(calls, CursorParam(cursor))
       /\ responses' = Append(responses, [kind |-> kind, n |-> n, next_cursor |-> raw])
       /\ IF kind = "error"
          THEN cur_pc' = "raised" /\ UNCHANGED <<cursor, n_all_trades>>
          ELSE LET next_cursor == NormalizeCursor(kind, raw)
               IN /\ n_all_trades' = n_all_trades + n
                  /\ IF ~Truthy(next_cursor)
                     THEN cur_pc' = "done" /\ UNCHANGED cursor
                     ELSE cur_pc' = "loop" /\ cursor' = next_cursor
  /\ UNCHANGED <<pvars, wvars, rvars, tvars>>

CursorInit ==
  /\ cur_pc = "loop" /\ cursor = None /\ n_all_trades = 0
  /\ calls = <<>> /\ responses = <<>>

CursorIdle ==
  /\ cur_pc = "none" /\ cursor = None /\ n_all_trades = 0
  /\ calls = <<>> /\ responses = <<>>

\* ======================================================= chunked persistence
\* A record is <<run, k>>: the k-th record put into the buffer in that run.
NewRecords(k) == [i \in 1..k |-> <<run, Len(appended) + i>>]

SetMax(S) == CHOOSE x \in S : \A y \in S : y <= x

\* The locals a phase function carries through its writes.
W0 ==
  [buf |-> all_trades, idx |-> next_chunk_idx, saved |-> total_saved,
   dir |-> dir, writes |-> writes, faults |-> faults, raised |-> FALSE]

\* pd.DataFrame(rows).to_parquet(path): the file is created or replaced; a
\* write that raises leaves the directory as it was or the file truncated.
ToParquet(w, path, rows, fail, partial) ==
  IF fail
  THEN [w EXCEPT !.raised = TRUE,
                 !.faults = @ + 1,
                 !.dir = IF partial THEN (path :> <<>>) @@ @ ELSE @,
                 !.writes = Append(@, [name |-> path, rows |-> rows, ok |-> FALSE])]
  ELSE [w EXCEPT !.dir = (path :> rows) @@ @,
                 !.writes = Append(@, [name |-> path, rows |-> rows, ok |-> TRUE])]

\* f"trades_{next_chunk_idx}_{next_chunk_idx + batch_size}.parquet"
TradesPath(idx) == <<idx, idx + batch_size>>

\* save_batch of both trade phases, with the caller's total_saved += ...
save_batch(w, trades_batch, fail, partial) ==
  IF trades_batch = <<>>
  THEN w
  ELSE LET w1 == ToParquet(w, TradesPath(w.idx), trades_batch, fail, partial)
       IN IF w1.raised
          THEN w1
          ELSE [w1 EXCEPT !.idx = @ + batch_size, !.saved = @ + Len(trades_batch)]

\* all_trades[:batch_size] and all_trades[batch_size:]
BackBatch(buf, size) == SubSeq(buf, Len(buf) - size + 1, Len(buf))

FrontBatch(buf, size) == SubSeq(buf, 1, size)

DropRest(buf, size) == <<>>

RestAfterBatch(buf, size) == SubSeq(buf, size + 1, Len(buf))

\* `while len(all_trades) >= batch_size:` of both trade phases; the failAt-th
\* write of the loop raises (0: none does).
RECURSIVE FlushTradesLoop(_, _, _)
FlushTradesLoop(w, failAt, partial) ==
  IF Len(w.buf) < batch_size
  THEN w
  ELSE LET w1 == save_batch(w, FrontBatch(w.buf, batch_size), failAt = 1, partial)
       IN IF w1.raised
          THEN w1
          ELSE FlushTradesLoop([w1 EXCEPT !.buf = RestAfterBatch(w.buf, batch_size)],
                               failAt - 1, partial)

FlushTradesOnce(w, failAt, partial) ==
  IF Len(w.buf) < batch_size
  THEN w
  ELSE LET w1 == save_batch(w, FrontBatch(w.buf, batch_size), failAt = 1, partial)
       IN IF w1.raised
          THEN w1
          ELSE [w1 EXCEPT !.buf = RestAfterBatch(w.buf, batch_size)]

FlushTrades(w, failAt, partial) == FlushTradesLoop(w, failAt, partial)

\* The markets phase: chunk_start = chunks_saved * chunk_size (w.idx holds
\* chunks_saved); a full chunk is named by chunk_start + chunk_size.
MarketsPath(chunks_saved, n) ==
  <<chunks_saved * chunk_size, chunks_saved * chunk_size + n>>

RECURSIVE FlushMarkets(_, _, _)
FlushMarkets(w, failAt, partial) ==
  IF Len(w.buf) < chunk_size
  THEN w
  ELSE LET w1 == ToParquet(w, MarketsPath(w.idx, chunk_size),
                           FrontBatch(w.buf, chunk_size), failAt = 1, partial)
       IN IF w1.raised
          THEN w1
          ELSE FlushMarkets([w1 EXCEPT !.buf = RestAfterBatch(w.buf, chunk_size),
                                       !.idx = @ + 1],
                            failAt - 1, partial)

\* `if all_weather_records:` after the loop: the final chunk is named by its length.
FinalMarketsChunk(w, fail, partial) ==
  IF w.buf = <<>>
  THEN w
  ELSE ToParquet(w, MarketsPath(w.idx, Len(w.buf)), w.buf, fail, partial)

\* PRICES_DIR / "prices_0.parquet"
PricesPath == <<0>>

FinalPricesFile(w, fail, partial) ==
  IF w.buf = <<>> THEN w ELSE ToParquet(w, PricesPath, w.buf, fail, partial)

\* "Resume from existing chunks if any": max of the start indices + batch_size.
ResumeIndex(d) ==
  LET indices == {f[1] : f \in DOMAIN d}
  IN IF indices = {} THEN 0 ELSE SetMax(indices) + batch_size

\* Which write of a flush loop over buf raises, and how it leaves the file.
FailChoices(buf, size) ==
  IF faults < MaxFaults THEN 0..(Len(buf) \div size) ELSE {0}

FinalFailChoices(buf) ==
  IF faults < MaxFaults /\ buf # <<>> THEN BOOLEAN ELSE {FALSE}

PartialChoices(failing) == IF failing THEN BOOLEAN ELSE {FALSE}

Commit(w) ==
  /\ all_trades' = w.buf
  /\ next_chunk_idx' = w.idx
  /\ total_saved' = w.saved
  /\ dir' = w.dir
  /\ writes' = w.writes
  /\ faults' = w.faults

\* The locals of a phase function up to its loop.
StartRun(ix, idx0) ==
  /\ indexer = ix
  /\ pc \in {"idle", "done", "failed"}
  /\ run < MaxRuns
  /\ run' = run + 1
  /\ \E n \in 1..MaxItems : n_left' = n
  /\ pc' = "loop"
  /\ all_trades' = <<>>
  /\ total_saved' = 0
  /\ next_chunk_idx' = idx0
  /\ dir0' = dir
  /\ appended' = <<>>
  /\ writes' = <<>>
  /\ finalized' = 0
  /\ pbar_n' = 0
  /\ UNCHANGED <<indexer, dir, faults, pvars, cvars, rvars, tvars>>

\* ---------------------------------------- KalshiWeatherIndexer._fetch_weather_trades
StartKalshiTrades == StartRun("kalshi_trades", ResumeIndex(dir))

\* One iteration of `for future in as_completed(futures)`: future.result()
\* raises or returns k records; extend and flush sit inside the try, so a
\* write that raises is caught and the loop goes on.
Reraise(nxt) == "failed"

\* `except Exception as e:` reports the item and the loop goes on.
AfterExcept(nxt) == nxt

\* pbar.update(1) in the try block once future.result() has returned, and
\* pbar.update(1) in the except block.
KalshiUpdates(raised, caught) ==
  (IF raised THEN 0 ELSE 1) + (IF caught THEN 1 ELSE 0)

KalshiCompletion(raised, recs) ==
  LET w0 == [W0 EXCEPT !.buf = all_trades \o recs]
      nxt == IF n_left = 1 THEN "final" ELSE "loop"
  IN \E failAt \in (IF raised THEN {0} ELSE FailChoices(w0.buf, batch_size)) :
       \E partial \in PartialChoices(failAt > 0) :
         LET w == IF raised THEN W0 ELSE FlushTrades(w0, failAt, partial)
         IN /\ Commit(w)
            /\ appended' = appended \o recs
            /\ n_left' = n_left - 1
            /\ pc' = IF raised \/ w.raised THEN AfterExcept(nxt) ELSE nxt
            /\ pbar_n' = pbar_n + KalshiUpdates(raised, raised \/ w.raised)

HandleKalshiCompletion ==
  /\ indexer = "kalshi_trades" /\ pc = "loop" /\ n_left > 0
  /\ \E raised \in BOOLEAN, k \in 0..MaxRecs :
       /\ raised => k = 0
       /\ KalshiCompletion(raised, NewRecords(k))
  /\ UNCHANGED <<indexer, run, dir0, finalized, pvars, cvars, rvars, tvars>>

\* `if all_trades: total_saved += save_batch(all_trades)` and the return.
FinalTradesFlush ==
  /\ \E fail \in FinalFailChoices(all_trades) : \E partial \in PartialChoices(fail) :
       LET w == save_batch(W0, all_trades, fail, partial)
       IN Commit(w) /\ pc' = IF w.raised THEN "failed" ELSE "done"
  /\ finalized' = finalized + 1

FinishKalshiTrades ==
  /\ indexer = "kalshi_trades" /\ pc = "final"
  /\ FinalTradesFlush
  /\ UNCHANGED <<indexer, run, n_left, dir0, appended, pbar_n, pvars, cvars, rvars, tvars>>

\* ------------------------------------------- PolymarketWeatherIndexer._fetch_trades
StartPolyTrades == StartRun("poly_trades", 0)

\* One iteration of the as_completed loop: fetch_one returns k records ([] when
\* its fetch raised); the flush loop is outside the try, so a write that
\* raises ends the phase.
PolyCompletion(recs) ==
  LET w0 == [W0 EXCEPT !.buf = all_trades \o recs]
  IN \E failAt \in FailChoices(w0.buf, batch_size) :
       \E partial \in PartialChoices(failAt > 0) :
         LET w == FlushTrades(w0, failAt, partial)
         IN /\ Commit(w)
            /\ appended' = appended \o recs
            /\ n_left' = n_left - 1
            /\ pc' = IF w.raised THEN "failed"
                     ELSE IF n_left = 1 THEN "final" ELSE "loop"
            /\ pbar_n' = pbar_n + 1

HandlePolyCompletion ==
  /\ indexer = "poly_trades" /\ pc = "loop" /\ n_left > 0
  /\ \E k \in 0..MaxRecs : PolyCompletion(NewRecords(k))
  /\ UNCHANGED <<indexer, run, dir0, finalized, pvars, cvars, rvars, tvars>>

FinishPolyTrades ==
  /\ indexer = "poly_trades" /\ pc = "final"
  /\ FinalTradesFlush
  /\ UNCHANGED <<indexer, run, n_left, dir0, appended, pbar_n, pvars, cvars, rvars, tvars>>

\* ---------------------------------- PolymarketWeatherIndexer._fetch_weather_markets
StartPolyMarkets == StartRun("poly_markets", 0)

\* One iteration of `for markets, next_offset in client.iter_markets(...)`:
\* the page request raises (nothing catches it: the phase ends), or it gives a
\* page with k weather markets (k = 0 covers the empty page).
PageRequestSkipped ==
  /\ pc' = "loop"
  /\ UNCHANGED <<n_left, all_trades, total_saved, next_chunk_idx, dir, writes,
                 faults, appended, pbar_n>>

\* client.iter_markets raises inside the for statement: nothing catches it.
PageRequestRaises ==
  /\ pc' = "failed"
  /\ UNCHANGED <<n_left, all_trades, total_saved, next_chunk_idx, dir, writes,
                 faults, appended, pbar_n>>

MarketsPage(recs, last) ==
  LET w0 == [W0 EXCEPT !.buf = all_trades \o recs]
  IN \E failAt \in FailChoices(w0.buf, chunk_size) :
       \E partial \in PartialChoices(failAt > 0) :
         LET w == FlushMarkets(w0, failAt, partial)
         IN /\ Commit(w)
            /\ appended' = appended \o recs
            /\ n_left' = n_left - 1
            /\ pc' = IF w.raised THEN "failed"
                     ELSE IF last THEN "final" ELSE "loop"
            /\ UNCHANGED pbar_n

HandleMarketsPage ==
  /\ indexer = "poly_markets" /\ pc = "loop" /\ n_left > 0
  /\ \/ PageRequestRaises
     \/ \E k \in 0..MaxRecs : MarketsPage(NewRecords(k), n_left = 1)
  /\ UNCHANGED <<indexer, run, dir0, finalized, pvars, cvars, rvars, tvars>>

FinalMarketsFlush ==
  /\ \E fail \in FinalFailChoices(all_trades) : \E partial \in PartialChoices(fail) :
       LET w == FinalMarketsChunk(W0, fail, partial)
       IN Commit(w) /\ pc' = IF w.raised THEN "failed" ELSE "done"
  /\ finalized' = finalized + 1

FinishPolyMarkets ==
  /\ indexer = "poly_markets" /\ pc = "final"
  /\ FinalMarketsFlush
  /\ UNCHANGED <<indexer, run, n_left, dir0, appended, pbar_n, pvars, cvars, rvars, tvars>>

\* ------------------------------------ PolymarketWeatherIndexer._fetch_price_history
StartPolyPrices == StartRun("poly_prices", 0)

\* One iteration of the as_completed loop: all_prices.extend(records).
PricesCompletion(recs) ==
  /\ all_trades' = all_trades \o recs
  /\ appended' = appended \o recs
  /\ n_left' = n_left - 1
  /\ pc' = IF n_left = 1 THEN "final" ELSE "loop"
  /\ pbar_n' = pbar_n + 1

HandlePricesCompletion ==
  /\ indexer = "poly_prices" /\ pc = "loop" /\ n_left > 0
  /\ \E k \in 0..MaxRecs : PricesCompletion(NewRecords(k))
  /\ UNCHANGED <<indexer, run, total_saved, next_chunk_idx, dir, dir0, writes, faults,
                 finalized, pvars, cvars, rvars, tvars>>

FinalPricesFlush ==
  /\ \E fail \in FinalFailChoices(all_trades) : \E partial \in PartialChoices(fail) :
       LET w == FinalPricesFile(W0, fail, partial)
       IN Commit(w) /\ pc' = IF w.raised THEN "failed" ELSE "done"
  /\ finalized' = finalized + 1

FinishPolyPrices ==
  /\ indexer = "poly_prices" /\ pc = "final"
  /\ FinalPricesFlush
  /\ UNCHANGED <<indexer, run, n_left, dir0, appended, pbar_n, pvars, cvars, rvars, tvars>>

Indexers == {"kalshi_trades", "poly_trades", "poly_markets", "poly_prices"}

\* The output directory starts empty (run() has just created it).
WriterInit ==
  /\ indexer \in Indexers
  /\ pc = "idle" /\ run = 0 /\ n_left = 0
  /\ all_trades = <<>> /\ total_saved = 0 /\ next_chunk_idx = 0
  /\ dir = <<>> /\ dir0 = <<>>
  /\ appended = <<>> /\ writes = <<>> /\ faults = 0 /\ finalized = 0 /\ pbar_n = 0

WriterIdle ==
  /\ indexer = "none"
  /\ pc = "idle" /\ run = 0 /\ n_left = 0
  /\ all_trades = <<>> /\ total_saved = 0 /\ next_chunk_idx = 0
  /\ dir = <<>> /\ dir0 = <<>>
  /\ appended = <<>> /\ writes = <<>> /\ faults = 0 /\ finalized = 0 /\ pbar_n = 0

\* ================================================= run(): discovery and fetch
\* The owners of HTTP clients: the discovery function, the fetch of task t.
DiscoveryClient == <<"discovery", 0>>

WorkerClient(t) == <<"worker", t>>

\* The keys discovery can meet: Kalshi tickers, Polymarket token ids. NoTokens
\* stands for a Polymarket market whose clob_token_ids parse to no token.
Keys == {"a", "b"}

NoTokens == "-"

KeysOf(ap) == IF ap = "poly" THEN Keys \cup {NoTokens} ELSE Keys

\* The weather markets one page can hold, as the sequence of their keys: a
\* page lists a market once, two pages can list the same market.
PageChoices(ap, room) ==
  {ks \in UNION {[1..n -> KeysOf(ap)] : n \in 0..room} :
     \A i, j \in 1..Len(ks) : ks[i] = ks[j] => i = j}

\* token_map[tid] = m.condition_id: a dict keeps one entry per key, in the
\* order of first insertion.
RECURSIVE Dedup(_)
Dedup(s) ==
  IF s = <<>>
  THEN <<>>
  ELSE LET r == Dedup(SubSeq(s, 1, Len(s) - 1))
       IN IF \E i \in 1..Len(r) : r[i] = Last(s) THEN r ELSE Append(r, Last(s))

HasTokens(k) == k # NoTokens

\* What the fetch phases iterate over: Kalshi's list weather_tickers as it was
\* extended page by page, Polymarket's token_map.
WorkSet(ap, fnd) ==
  IF ap = "kalshi" THEN fnd ELSE Dedup(SelectSeq(fnd, HasTokens))

\* executor.submit(fetch, key) for every element of the work set.
NewTasks(ws) ==
  [i \in 1..Len(ws) |-> [key |-> ws[i], st |-> "queued", err |-> "none", n |-> 0]]

Running(ts) == Cardinality({t \in DOMAIN ts : ts[t].st = "running"})

NeverWait(ts) == TRUE

\* Leaving `with ThreadPoolExecutor(...)` waits for every submitted call.
AllSettled(ts) == \A t \in DOMAIN ts : ts[t].st \in {"done", "consumed"}

AnyWorker(ts) == TRUE

\* ThreadPoolExecutor(max_workers=self._max_workers): a queued call starts
\* only while fewer than max_workers calls are executing.
WorkerFree(ts) == Running(ts) < max_workers

ExtendShared(buf, recs) == buf \o recs

\* The worker function builds and returns its own list; the consumer's
\* buffer is as it was when the worker ends.
AfterFetch(buf, recs) == buf

\* The rows future.result() returns for task t.
TaskRecords(t) == [j \in 1..tasks[t].n |-> <<t, j>>]

\* Whether future.result() raises: Kalshi's fetch_ticker_trades has only a
\* finally; Polymarket's fetch_one returns [] when the request raised, and
\* raises only for its client (constructor, close).
FutureRaises(ix, task) ==
  IF ix = "kalshi_trades" THEN task.err # "none" ELSE task.err = "client"

MarketsIndexer(ap) == IF ap = "kalshi" THEN "kalshi_markets" ELSE "poly_markets"

FetchIndexers == {"kalshi_trades", "poly_prices", "poly_trades"}

\* The locals of a phase function, its directory just created by run(), and
\* its futures submitted.
BeginPhase(ix, ws) ==
  /\ indexer' = ix /\ pc' = "loop"
  /\ n_left' = Len(ws)
  /\ all_trades' = <<>> /\ total_saved' = 0
  /\ dir' = <<>> /\ dir0' = <<>>
  /\ next_chunk_idx' = IF ix = "kalshi_trades" THEN ResumeIndex(dir') ELSE 0
  /\ appended' = <<>> /\ writes' = <<>> /\ finalized' = 0 /\ pbar_n' = 0
  /\ tasks' = NewTasks(ws) /\ reported' = {}
  /\ UNCHANGED <<run, faults, app, clients, rpc, page_requests, found, pvars, cvars, tvars>>

\* ------------------------------------------------------------ discovery
\* One iteration of KalshiWeatherIndexer._fetch_weather_markets: the page
\* request (or storage.append_markets) raises, or the page's weather tickers
\* extend weather_tickers; `if not next_cursor: break`, and client.close()
\* after the loop.
KalshiDiscoverPage ==
  /\ app = "kalshi" /\ rpc = "phases"
  /\ indexer = "kalshi_markets" /\ pc = "loop" /\ n_left > 0
  /\ page_requests' = page_requests + 1
  /\ \/ /\ pc' = "failed"
        /\ UNCHANGED <<n_left, found, clients>>
     \/ \E ks \in PageChoices(app, MaxFound - Len(found)) :
          \E has_next \in (IF n_left > 1 THEN BOOLEAN ELSE {FALSE}) :
            /\ found' = found \o ks
            /\ n_left' = n_left - 1
            /\ pc' = IF has_next THEN "loop" ELSE "done"
            /\ clients' = IF has_next THEN clients ELSE clients \ {DiscoveryClient}
  /\ UNCHANGED <<indexer, run, all_trades, total_saved, next_chunk_idx, dir, dir0,
                 appended, writes, faults, finalized, pbar_n, app, rpc, tasks, reported,
                 pvars, cvars, tvars>>

\* One iteration of PolymarketWeatherIndexer._fetch_weather_markets: the page
\* request raises, or the page's weather markets are buffered and flushed in
\* chunks; `if next_offset < 0: break`.
PolyDiscoverPage ==
  /\ app = "poly" /\ rpc = "phases"
  /\ indexer = "poly_markets" /\ pc = "loop" /\ n_left > 0
  /\ page_requests' = page_requests + 1
  /\ \/ PageRequestRaises /\ UNCHANGED found
     \/ \E ks \in PageChoices(app, MaxFound - Len(found)) :
          \E has_next \in (IF n_left > 1 THEN BOOLEAN ELSE {FALSE}) :
            /\ found' = found \o ks
            /\ MarketsPage(NewRecords(Len(ks)), ~has_next)
  /\ UNCHANGED <<indexer, run, dir0, finalized, app, clients, rpc, tasks, reported,
                 pvars, cvars, tvars>>

\* The final markets chunk, client.close() and the return of
\* _fetch_weather_markets.
PolyDiscoverFinish ==
  /\ app = "poly" /\ rpc = "phases"
  /\ indexer = "poly_markets" /\ pc = "final"
  /\ FinalMarketsFlush
  /\ clients' = IF pc' = "done" THEN clients \ {DiscoveryClient} ELSE clients
  /\ UNCHANGED <<indexer, run, n_left, dir0, appended, pbar_n, app, rpc, page_requests,
                 found, tasks, reported, pvars, cvars, tvars>>

\* `if not weather_tickers: return`, `if not weather_markets: return` and
\* `if not token_map: return`.
ReturnEmpty ==
  /\ rpc = "phases"
  /\ indexer = MarketsIndexer(app) /\ pc = "done"
  /\ WorkSet(app, found) = <<>>
  /\ rpc' = "returned"
  /\ UNCHANGED <<wvars, app, clients, page_requests, found, tasks, reported,
                 pvars, cvars, tvars>>

\* Phase 2 of run(): _fetch_weather_trades(weather_tickers) or
\* _fetch_price_history(token_map).
StartFetch ==
  /\ rpc = "phases"
  /\ indexer = MarketsIndexer(app) /\ pc = "done"
  /\ WorkSet(app, found) # <<>>
  /\ BeginPhase(IF app = "kalshi" THEN "kalshi_trades" ELSE "poly_prices",
                WorkSet(app, found))

\* Phase 3 of PolymarketWeatherIndexer.run(): _fetch_trades(token_map).
StartPolyTradesPhase ==
  /\ rpc = "phases"
  /\ indexer = "poly_prices" /\ pc = "done"
  /\ BeginPhase("poly_trades", WorkSet(app, found))

\* ---------------------------------------------------------------- workers
\* A pool thread takes the oldest queued call, which creates its client.
WorkerStart ==
  /\ rpc = "phases" /\ indexer \in FetchIndexers
  /\ \E t \in DOMAIN tasks :
       /\ tasks[t].st = "queued"
       /\ \A u \in 1..(t - 1) : tasks[u].st # "queued"
       /\ WorkerFree(tasks)
       /\ tasks' = [tasks EXCEPT ![t].st = "running"]
       /\ clients' = clients \cup {WorkerClient(t)}
  /\ UNCHANGED <<wvars, app, rpc, page_requests, found, reported, pvars, cvars, tvars>>

\* How a worker call can fail: its request raises, or (outside fetch_one's
\* try block) its client does. fetch_ticker_trades treats both alike.
FetchErrors(ix) == IF ix = "kalshi_trades" THEN {"request"} ELSE {"request", "client"}

\* The numbers of rows a fetch is let to return: none, one, the largest.
FetchSizes == {0, 1, MaxFetched}

\* fetch_ticker_trades / fetch_one ends: k rows, or an error; `finally:
\* client.close()` either way.
WorkerFinish ==
  /\ rpc = "phases" /\ indexer \in FetchIndexers
  /\ \E t \in DOMAIN tasks :
       /\ tasks[t].st = "running"
       /\ \E e \in {"none"} \cup FetchErrors(indexer), k \in FetchSizes :
            /\ e # "none" => k = 0
            /\ tasks' = [tasks EXCEPT ![t].st = "done", ![t].err = e, ![t].n = k]
            /\ all_trades' = AfterFetch(all_trades, [j \in 1..k |-> <<t, j>>])
       /\ clients' = clients \ {WorkerClient(t)}
  /\ UNCHANGED <<indexer, pc, run, n_left, total_saved, next_chunk_idx, dir, dir0,
                 appended, writes, faults, finalized, pbar_n>>
  /\ UNCHANGED <<app, rpc, page_requests, found, reported, pvars, cvars, tvars>>

\* --------------------------------------------------------------- consumer
\* as_completed(futures) hands over any future that has completed.
Completed(ts) == {t \in DOMAIN ts : ts[t].st = "done"}

\* One iteration of the loop of KalshiWeatherIndexer._fetch_weather_trades.
ConsumeKalshi ==
  /\ rpc = "phases" /\ indexer = "kalshi_trades" /\ pc = "loop"
  /\ \E t \in Completed(tasks) :
       /\ KalshiCompletion(FutureRaises(indexer, tasks[t]), TaskRecords(t))
       /\ tasks' = [tasks EXCEPT ![t].st = "consumed"]
       /\ reported' = IF FutureRaises(indexer, tasks[t]) \/ faults' > faults
                      THEN reported \cup {t} ELSE reported
  /\ UNCHANGED <<indexer, run, dir0, finalized, app, clients, rpc, page_requests, found,
                 pvars, cvars, tvars>>

\* One iteration of the loop of PolymarketWeatherIndexer._fetch_price_history.
ConsumePolyPrices ==
  /\ rpc = "phases" /\ indexer = "poly_prices" /\ pc = "loop"
  /\ \E t \in Completed(tasks) :
       /\ PricesCompletion(TaskRecords(t))
       /\ tasks' = [tasks EXCEPT ![t].st = "consumed"]
       /\ reported' = IF FutureRaises(indexer, tasks[t])
                      THEN reported \cup {t} ELSE reported
  /\ UNCHANGED <<indexer, run, total_saved, next_chunk_idx, dir, dir0, writes, faults,
                 finalized, app, clients, rpc, page_requests, found, pvars, cvars, tvars>>

\* One iteration of the loop of PolymarketWeatherIndexer._fetch_trades.
ConsumePolyTrades ==
  /\ rpc = "phases" /\ indexer = "poly_trades" /\ pc = "loop"
  /\ \E t \in Completed(tasks) :
       /\ PolyCompletion(TaskRecords(t))
       /\ tasks' = [tasks EXCEPT ![t].st = "consumed"]
       /\ reported' = IF FutureRaises(indexer, tasks[t])
                      THEN reported \cup {t} ELSE reported
  /\ UNCHANGED <<indexer, run, dir0, finalized, app, clients, rpc, page_requests, found,
                 pvars, cvars, tvars>>

\* The final save_batch of a trades phase.
FinishTradesPhase ==
  /\ rpc = "phases" /\ indexer \in {"kalshi_trades", "poly_trades"} /\ pc = "final"
  /\ FinalTradesFlush
  /\ UNCHANGED <<indexer, run, n_left, dir0, appended, pbar_n, rvars, pvars, cvars, tvars>>

\* prices_0.parquet.
FinishPricesPhase ==
  /\ rpc = "phases" /\ indexer = "poly_prices" /\ pc = "final"
  /\ FinalPricesFlush
  /\ UNCHANGED <<indexer, run, n_left, dir0, appended, pbar_n, rvars, pvars, cvars, tvars>>

\* --------------------------------------------------------- the end of run()
\* An exception leaves run(); one raised inside the `with` block first waits
\* for the pool.
RunRaises ==
  /\ rpc = "phases" /\ pc = "failed"
  /\ AllSettled(tasks)
  /\ rpc' = "raised"
  /\ UNCHANGED <<wvars, app, clients, page_requests, found, tasks, reported,
                 pvars, cvars, tvars>>

\* The last phase returned.
RunReturns ==
  /\ rpc = "phases" /\ pc = "done"
  /\ indexer \in {"kalshi_trades", "poly_trades"}
  /\ rpc' = "returned"
  /\ UNCHANGED <<wvars, app, clients, page_requests, found, tasks, reported,
                 pvars, cvars, tvars>>

\* run() starts with discovery; the directories were just created, and
\* _fetch_weather_markets has created its client.
RunInit ==
  /\ app \in {"kalshi", "poly"} /\ rpc = "phases" /\ page_requests = 0
  /\ found = <<>> /\ tasks = <<>> /\ reported = {}
  /\ clients = {DiscoveryClient}
  /\ indexer = MarketsIndexer(app)
  /\ pc = "loop" /\ run = 1 /\ n_left = MaxPages
  /\ all_trades = <<>> /\ total_saved = 0 /\ next_chunk_idx = 0
  /\ dir = <<>> /\ dir0 = <<>>
  /\ appended = <<>> /\ writes = <<>> /\ faults = 0 /\ finalized = 0 /\ pbar_n = 0

\* No run() is in progress.
RunIdle ==
  /\ app = "none" /\ rpc = "none" /\ page_requests = 0
  /\ found = <<>> /\ tasks = <<>> /\ reported = {} /\ clients = {}

\* ========================================================= _parse_token_ids
\* A string is the sequence of its characters. The characters an argument is
\* made of: brackets, braces, comma, the single quote of a Python repr, two
\* digits and a letter.
InputChars == {"[", "]", "{", "}", ",", "'", "0", "1", "a"}

DQ == "\""

DigitChars == {"0", "1"}

\* clob_token_ids.replace("'", '"')
ReplaceQuotes(s) == [i \in 1..Len(s) |-> IF s[i] = "'" THEN DQ ELSE s[i]]

\* What a scan gives: a value v and the index i after it, or an exception.
Scanned(v, i) == [k |-> "ok", v |-> v, i |-> i]

ScanError(exc) == [k |-> exc, v |-> <<>>, i |-> 0]

\* A JSON value: its Python type t and its content s.
Value(t, c) == [t |-> t, s |-> c]

\* The index of the first character of s at or after i that is not in cs.
RECURSIVE SkipChars(_, _, _)
SkipChars(s, i, cs) ==
  IF i <= Len(s) /\ s[i] \in cs THEN SkipChars(s, i + 1, cs) ELSE i

\* A string literal whose opening quote is before i: up to the next quote.
ScanString(s, i) ==
  LET j == SkipChars(s, i, InputChars \ {DQ})
  IN IF j > Len(s)
     THEN ScanError("JSONDecodeError")
     ELSE Scanned(Value("str", SubSeq(s, i, j - 1)), j + 1)

\* An integer literal at i: `0`, or a run of digits, which int() refuses to
\* convert when it is longer than the interpreter's limit.
ScanNumber(s, i) ==
  IF s[i] = "0"
  THEN Scanned(Value("int", <<"0">>), i + 1)
  ELSE LET j == SkipChars(s, i, DigitChars)
       IN IF j - i > MaxStrDigits
          THEN ScanError("ValueError")
          ELSE Scanned(Value("int", SubSeq(s, i, j - 1)), j)

\* json's scan_once at index i, depth arrays or objects deep.
RECURSIVE ScanValue(_, _, _)
RECURSIVE ScanItems(_, _, _, _)
ScanValue(s, i, depth) ==
  IF i > Len(s)
  THEN ScanError("JSONDecodeError")
  ELSE CASE s[i] = DQ -> ScanString(s, i + 1)
         [] s[i] \in DigitChars -> ScanNumber(s, i)
         [] s[i] = "[" ->
              IF depth >= RecursionLimit
              THEN ScanError("RecursionError")
              ELSE IF i < Len(s) /\ s[i + 1] = "]"
                   THEN Scanned(Value("list", <<>>), i + 2)
                   ELSE ScanItems(s, i + 1, depth + 1, <<>>)
         [] s[i] = "{" ->
              IF depth >= RecursionLimit
              THEN ScanError("RecursionError")
              ELSE IF i < Len(s) /\ s[i + 1] = "}"
                   THEN Scanned(Value("dict", <<>>), i + 2)
                   ELSE ScanError("JSONDecodeError")
         [] OTHER -> ScanError("JSONDecodeError")

\* The elements of an array from index i on, acc being those scanned so far.
ScanItems(s, i, depth, acc) ==
  LET r == ScanValue(s, i, depth)
  IN IF r.k # "ok"
     THEN r
     ELSE IF r.i > Len(s)
          THEN ScanError("JSONDecodeError")
          ELSE IF s[r.i] = "]"
               THEN Scanned(Value("list", Append(acc, r.v)), r.i + 1)
               ELSE IF s[r.i] = ","
                    THEN ScanItems(s, r.i + 1, depth, Append(acc, r.v))
                    ELSE ScanError("JSONDecodeError")

\* json.loads(s): one value, then the end of the string ("Extra data").
json_loads(s) ==
  LET r == ScanValue(s, 1, 0)
  IN IF r.k = "ok" /\ r.i <= Len(s) THEN ScanError("JSONDecodeError") ELSE r

\* `if t`: "", 0, [] and {} are false.
PyTruthy(v) ==
  CASE v.t = "int" -> v.s # <<"0">>
    [] v.t = "dict" -> FALSE
    [] OTHER -> v.s # <<>>

\* repr(v) and str(v): a str in single quotes, a list as "[e1, e2]".
RECURSIVE PyRepr(_)
RECURSIVE JoinRepr(_)
PyRepr(v) ==
  CASE v.t = "str" -> <<"'">> \o v.s \o <<"'">>
    [] v.t = "int" -> v.s
    [] v.t = "dict" -> <<"{", "}">>
    [] OTHER -> <<"[">> \o JoinRepr(v.s) \o <<"]">>

JoinRepr(items) ==
  IF items = <<>>
  THEN <<>>
  ELSE IF Len(items) = 1
       THEN PyRepr(items[1])
       ELSE PyRepr(items[1]) \o <<",", " ">> \o JoinRepr(Tail(items))

PyStr(v) == IF v.t = "str" THEN v.s ELSE PyRepr(v)

\* [str(t) for t in ids if t]
RECURSIVE StrOfTruthy(_)
StrOfTruthy(ids) ==
  IF ids = <<>>
  THEN <<>>
  ELSE (IF PyTruthy(ids[1]) THEN <<PyStr(ids[1])>> ELSE <<>>) \o StrOfTruthy(Tail(ids))

\* except (json.JSONDecodeError, TypeError): pass
CaughtByParser == {"JSONDecodeError", "TypeError"}

\* _parse_token_ids(clob_token_ids): what it returns, or what it raises.
parse_token_ids(arg) ==
  LET r == json_loads(ReplaceQuotes(arg))
  IN IF r.k = "ok"
     THEN [exc |-> None, ret |-> IF r.v.t = "list" THEN StrOfTruthy(r.v.s) ELSE <<>>]
     ELSE IF r.k \in CaughtByParser
          THEN [exc |-> None, ret |-> <<>>]
          ELSE [exc |-> r.k, ret |-> <<>>]

\* One call of _parse_token_ids.
ParseTokenIds ==
  /\ parse_pc = "call"
  /\ LET out == parse_token_ids(clob_token_ids)
     IN /\ parse_exc' = out.exc
        /\ token_ids' = out.ret
        /\ parse_pc' = IF out.exc = None THEN "returned" ELSE "raised"
  /\ UNCHANGED <<clob_token_ids, pvars, cvars, wvars, rvars>>

\* Market.from_dict stores str(data.get("clobTokenIds", "[]")): any string.
ParseInit ==
  /\ clob_token_ids \in UNION {[1..n -> InputChars] : n \in 0..MaxChars}
  /\ parse_pc = "call" /\ token_ids = <<>> /\ parse_exc = None

ParseIdle ==
  /\ clob_token_ids = <<>>
  /\ parse_pc = "none" /\ token_ids = <<>> /\ parse_exc = None

\* ============================================================ specifications
vars == <<pvars, cvars, wvars, rvars, tvars>>

InitPage == PageInit /\ CursorIdle /\ WriterIdle /\ RunIdle /\ ParseIdle

NextPage == IterMarkets \/ IterTrades

SpecPage == InitPage /\ [][NextPage]_vars

InitCursor == PageIdle /\ CursorInit /\ WriterIdle /\ RunIdle /\ ParseIdle

NextCursor == GetMarketTrades

SpecCursor == InitCursor /\ [][NextCursor]_vars

Init == PageIdle /\ CursorIdle /\ WriterInit /\ RunIdle /\ ParseIdle

Next ==
  \/ StartKalshiTrades \/ HandleKalshiCompletion \/ FinishKalshiTrades
  \/ StartPolyTrades \/ HandlePolyCompletion \/ FinishPolyTrades
  \/ StartPolyMarkets \/ HandleMarketsPage \/ FinishPolyMarkets
  \/ StartPolyPrices \/ HandlePricesCompletion \/ FinishPolyPrices

Spec == Init /\ [][Next]_vars

InitRun == PageIdle /\ CursorIdle /\ RunInit /\ ParseIdle

NextRun ==
  \/ KalshiDiscoverPage \/ PolyDiscoverPage \/ PolyDiscoverFinish
  \/ ReturnEmpty \/ StartFetch \/ StartPolyTradesPhase
  \/ WorkerStart \/ WorkerFinish
  \/ ConsumeKalshi \/ ConsumePolyPrices \/ ConsumePolyTrades
  \/ FinishTradesPhase \/ FinishPricesPhase
  \/ RunRaises \/ RunReturns

SpecRun == InitRun /\ [][NextRun]_vars

InitParse == PageIdle /\ CursorIdle /\ WriterIdle /\ RunIdle /\ ParseInit

NextParse == ParseTokenIds

SpecParse == InitParse /\ [][NextParse]_vars

\* ================================================ claims: offset pagination
\* C1: against a server returning min(P, N - offset) items, iter_markets(limit=P)
\* ends after ceil(N/P) or ceil(N/P)+1 page requests (it never runs past that
\* budget), and no offset is requested twice.
C1_RequestCount ==
  api = "markets" =>
    /\ Len(requests) <= Ceil(total, limit) + 1
    /\ gen_pc = "run" => Len(requests) <= Ceil(total, limit)
    /\ gen_pc = "done" => Len(requests) >= Ceil(total, limit)
    /\ Cardinality({requests[i].offset : i \in 1..Len(requests)}) = Len(requests)

\* C1 witness: a run over a non-empty collection whose last page was full, so
\* that the extra request was issued.
C1_Witness ==
  /\ api = "markets" /\ gen_pc = "done" /\ total > limit
  /\ Len(requests) = Ceil(total, limit) + 1

\* C2 (as claimed): in iter_markets and iter_trades, for every limit, a page
\* holding as many items as were requested from the server is never the
\* last page of the run.
C2_FullPageNeverTerminal ==
  gen_pc = "done" => Last(yields).n # Last(requests).limit

\* C2: the run the claim excludes: iter_trades ended on a full page and the
\* items behind it were never requested.
C2_Dropped ==
  /\ api = "trades" /\ gen_pc = "done"
  /\ Last(yields).n = Last(requests).limit
  /\ Last(requests).offset + Last(yields).n < total

C4_LastYieldIsDone ==
  gen_pc = "done" => Last(yields).next_offset = DONE_OFFSET

\* C4: the run the claim is wrong about: the generator ended on a short,
\* non-empty page whose tuple carries a non-negative offset.
C4_ShortPageEnd ==
  /\ gen_pc = "done" /\ Last(yields).n > 0 /\ Last(yields).n < limit
  /\ Last(yields).next_offset >= 0

\* ================================================ claims: cursor pagination
\* A response that carries the sentinel cursor or no cursor.
TerminalResponse(r) ==
  \/ r.kind = "list"
  \/ r.kind = "dict" /\ r.next_cursor \in {SENTINEL_CURSOR, None}

\* C5: a response carrying the sentinel "LTE=" (or no cursor) is the last one:
\* the loop has ended with it, no request follows it, and no request ever
\* carries the sentinel as its cursor parameter.
C5_SentinelTerminates ==
  /\ \A i \in 1..Len(calls) : calls[i] # SENTINEL_CURSOR
  /\ \A i \in 1..Len(responses) :
       TerminalResponse(responses[i]) => i = Len(responses) /\ cur_pc = "done"

\* C5 witness: the sentinel arrived after at least one real cursor was followed.
C5_Witness ==
  /\ cur_pc = "done" /\ Len(responses) >= 2
  /\ Last(responses).kind = "dict" /\ Last(responses).next_cursor = SENTINEL_CURSOR
  /\ calls[2] = "c1"

\* ============================================== claims: chunked persistence
\* The phases that name their chunk files by a range, and their chunk size.
RangeIndexers == {"kalshi_trades", "poly_trades", "poly_markets"}

ChunkSizeOf(ix) == IF ix = "poly_markets" THEN chunk_size ELSE batch_size

NoWriteFailed == \A i \in 1..Len(writes) : writes[i].ok

\* floor(L/C) chunks of C records, then one of L mod C records unless that is 0.
ExpectedSizes(L, C) ==
  [i \in 1..((L \div C) + (IF L % C = 0 THEN 0 ELSE 1)) |->
     IF i <= L \div C THEN C ELSE L % C]

\* The names the run's writes targeted, the names of the chunks it wrote (a
\* write that raised wrote no chunk), and the rows the files of a set of
\* names hold, in increasing order of start index.
WrittenNames == {writes[i].name : i \in 1..Len(writes)}

ChunkNames == {writes[i].name : i \in {j \in 1..Len(writes) : writes[j].ok}}

RECURSIVE ConcatFiles(_, _)
ConcatFiles(names, d) ==
  IF names = {}
  THEN <<>>
  ELSE LET m == CHOOSE x \in names : \A y \in names : x[1] <= y[1]
       IN (IF m \in DOMAIN d THEN d[m] ELSE <<>>) \o ConcatFiles(names \ {m}, d)

\* The largest end index among the files of a directory, or 0.
MaxEndIndex(d) == IF DOMAIN d = {} THEN 0 ELSE SetMax({f[2] : f \in DOMAIN d})

\* C6: from an empty directory and with no write failing, a finished run that
\* appended L records wrote floor(L/C) chunks of C records and then one chunk
\* of L mod C records (none when L mod C = 0); the directory holds exactly
\* those files.
C6_ChunkCounts ==
  (indexer \in RangeIndexers /\ pc = "done" /\ dir0 = <<>> /\ NoWriteFailed) =>
    /\ [i \in 1..Len(writes) |-> Len(writes[i].rows)]
         = ExpectedSizes(Len(appended), ChunkSizeOf(indexer))
    /\ Cardinality(DOMAIN dir) = Len(writes)
    /\ \A i \in 1..Len(writes) : dir[writes[i].name] = writes[i].rows

\* C6 witness: a finished run from an empty directory that wrote at least two
\* full chunks and a final partial one.
C6_Witness ==
  /\ indexer \in RangeIndexers /\ pc = "done" /\ dir0 = <<>> /\ NoWriteFailed
  /\ Len(writes) >= 3
  /\ Len(appended) % ChunkSizeOf(indexer) # 0

\* C7 (as claimed): every chunk file is named by the range of the records it
\* holds: end - start is its number of records, each chunk starts where the
\* one before it ended, and after L records from an empty directory the
\* ranges run from 0 to L.
C7_NamesAreRanges ==
  (indexer \in RangeIndexers /\ NoWriteFailed) =>
    /\ \A i \in 1..Len(writes) :
         writes[i].name[2] - writes[i].name[1] = Len(writes[i].rows)
    /\ \A i \in 2..Len(writes) : writes[i].name[1] = writes[i - 1].name[2]
    /\ (pc = "done" /\ dir0 = <<>> /\ writes # <<>>) =>
         writes[1].name[1] = 0 /\ Last(writes).name[2] = Len(appended)

\* C7: the case the code gets wrong: a final partial chunk of a trade phase
\* whose name promises batch_size records.
C7_PartialChunkMisnamed ==
  /\ indexer \in {"kalshi_trades", "poly_trades"} /\ pc = "done" /\ NoWriteFailed
  /\ writes # <<>>
  /\ Len(Last(writes).rows) < batch_size
  /\ Last(writes).name[2] - Last(writes).name[1] = batch_size

\* C8 (as claimed): at startup the Kalshi trade writer sets its next start index
\* to the largest end index among the files present (0 when there are none),
\* and a run that then appends n < batch_size records and finalizes writes
\* the one chunk [next, next + n).
C8_ResumeAtMaxEnd ==
  indexer = "kalshi_trades" =>
    /\ (pc = "loop" /\ writes = <<>>) => next_chunk_idx = MaxEndIndex(dir0)
    /\ (pc = "done" /\ NoWriteFailed /\ DOMAIN dir0 # {}
          /\ Len(appended) > 0 /\ Len(appended) < batch_size) =>
         writes = <<[name |-> <<MaxEndIndex(dir0), MaxEndIndex(dir0) + Len(appended)>>,
                     rows |-> appended, ok |-> TRUE]>>

\* C8: a resumed run (the directory held chunks) that appended fewer than
\* batch_size records and finalized.
C8_ResumedFinalChunk ==
  /\ indexer = "kalshi_trades" /\ pc = "done" /\ NoWriteFailed
  /\ DOMAIN dir0 # {}
  /\ Len(appended) > 0 /\ Len(appended) < batch_size
  /\ Last(writes).name = <<MaxEndIndex(dir0), MaxEndIndex(dir0) + batch_size>>

\* C9 (as claimed): in every phase, a file that existed when the run started
\* is never written again: it is still there with the rows it had, and no
\* write of the run carries its name (stated for the behaviours in which no
\* write raises).
C9_WriteOnce ==
  faults = 0 =>
  /\ \A f \in DOMAIN dir0 : f \in DOMAIN dir /\ dir[f] = dir0[f]
  /\ WrittenNames \cap DOMAIN dir0 = {}
  /\ indexer = "kalshi_trades" => \A f \in WrittenNames : f[1] >= MaxEndIndex(dir0)

\* C9: a re-run of a Polymarket phase that replaced a chunk of the run before.
C9_Overwritten ==
  /\ indexer \in {"poly_trades", "poly_markets", "poly_prices"}
  /\ run = 2 /\ faults = 0
  /\ \E f \in DOMAIN dir0 : dir0[f] # <<>> /\ dir[f] # dir0[f]

\* C10: the rows of the chunks written in the run, taken in increasing chunk
\* index, followed by the records still in the buffer, are exactly the
\* records appended, in order; once the run has finished the chunks alone are.
C10_ConcatIsAppended ==
  indexer \in Indexers =>
    LET chunks == ConcatFiles(ChunkNames, dir)
    IN IF pc = "done"
       THEN chunks = appended
       ELSE chunks \o all_trades = appended

\* C10 witness: a finished run whose chunks hold the records of two appends,
\* the second of which was split over chunks.
C10_Witness ==
  /\ indexer \in RangeIndexers /\ pc = "done" /\ NoWriteFailed
  /\ Len(writes) >= 3 /\ n_left = 0
  /\ Len(writes[1].rows) = ChunkSizeOf(indexer)
  /\ writes[1].rows[1] = <<run, 1>>
  /\ Len(appended) = 2 * ChunkSizeOf(indexer) + 1

\* C11 (as claimed): on every exit path of a trade- or market-writing phase,
\* the normal return and the exits by an exception alike, the final flush
\* has run at most once, and it has run whenever records were buffered at exit.
C11_FinalFlushOnEveryExit ==
  (indexer \in RangeIndexers /\ pc \in {"done", "failed"}) =>
    /\ finalized <= 1
    /\ finalized = 0 => all_trades = <<>>

\* C11: an exit by an exception that left records in the buffer with the final
\* flush never reached.
C11_BufferLostOnError ==
  /\ indexer \in {"poly_trades", "poly_markets"} /\ pc = "failed"
  /\ finalized = 0 /\ all_trades # <<>>
  /\ ConcatFiles(ChunkNames, dir) \o all_trades = appended

\* The start index of the next chunk (the markets phase counts chunks).
NextStart ==
  IF indexer = "poly_markets" THEN next_chunk_idx * chunk_size ELSE next_chunk_idx

\* C19 (as claimed): once the consumer has handled a completion (or a page) the
\* buffer holds fewer than batch_size records, the flushed chunks were cut
\* from its front, batch_size records each, and the next chunk index has
\* advanced by batch_size per chunk.
C19_BufferBelowBatch ==
  (indexer \in RangeIndexers /\ pc \in {"loop", "final"}) =>
    /\ Len(all_trades) < ChunkSizeOf(indexer)
    /\ \A i \in 1..Len(writes) :
         writes[i].ok => Len(writes[i].rows) = ChunkSizeOf(indexer)
    /\ NextStart - (IF writes = <<>> THEN NextStart ELSE writes[1].name[1])
         = Cardinality(ChunkNames) * ChunkSizeOf(indexer)

\* C19: the case the claim misses: the Kalshi consumer caught a chunk write
\* that raised and went on with batch_size records or more in the buffer.
C19_FullBufferAfterCaughtWrite ==
  /\ indexer = "kalshi_trades" /\ pc \in {"loop", "final"}
  /\ Len(all_trades) >= batch_size
  /\ ~NoWriteFailed

\* ================================================== claims: run() and the pool
Persisted(rec) == \E f \in DOMAIN dir : \E i \in 1..Len(dir[f]) : dir[f][i] = rec

InBuffer(rec) == \E i \in 1..Len(appended) : appended[i] = rec

Failed(t) == tasks[t].err # "none"

\* C12: a fetch that raises never ends a fetch phase: the phase fails only when
\* a chunk write raised; every item whose future has been consumed without an
\* error has all its records appended to the buffer, and once the phase is
\* done every future has been consumed and those records are in the files.
C12_FetchFailureIsolated ==
  indexer \in FetchIndexers =>
    /\ pc = "failed" => \E i \in 1..Len(writes) : ~writes[i].ok
    /\ \A t \in DOMAIN tasks :
         (tasks[t].st = "consumed" /\ ~Failed(t)) =>
           \A j \in 1..tasks[t].n : InBuffer(<<t, j>>)
    /\ pc = "done" =>
         \A t \in DOMAIN tasks :
           /\ tasks[t].st = "consumed"
           /\ ~Failed(t) => \A j \in 1..tasks[t].n : Persisted(<<t, j>>)

\* C12: a finished phase with no write fault in which one item's fetch raised
\* and another item's records were persisted.
C12_Witness ==
  /\ indexer \in {"kalshi_trades", "poly_trades"} /\ pc = "done" /\ rpc = "returned"
  /\ \A i \in 1..Len(writes) : writes[i].ok
  /\ \E t, u \in DOMAIN tasks :
       /\ tasks[t].err = "request"
       /\ ~Failed(u) /\ tasks[u].n > 0 /\ Persisted(<<u, 1>>)

\* C13 (as claimed): in every fetch phase, every item whose fetch failed and
\* whose future the consumer has handled is in the consumer's report of failed
\* items.
C13_FailedItemsReported ==
  indexer \in FetchIndexers =>
    \A t \in DOMAIN tasks : (tasks[t].st = "consumed" /\ Failed(t)) => t \in reported

\* C13: a Polymarket phase that returned with an item whose request raised,
\* handled like an item with no records and reported nowhere.
C13_SilentlyDropped ==
  /\ indexer \in {"poly_prices", "poly_trades"} /\ pc = "done"
  /\ \E t \in DOMAIN tasks :
       /\ tasks[t].st = "consumed" /\ tasks[t].err = "request"
       /\ ~FutureRaises(indexer, tasks[t]) /\ TaskRecords(t) = <<>>
       /\ t \notin reported

\* C14 (as claimed): the futures of one fetch phase have pairwise distinct
\* keys: the fetch function is submitted once per distinct key.
C14_OneFetchPerKey ==
  indexer \in FetchIndexers =>
    \A t, u \in DOMAIN tasks : tasks[t].key = tasks[u].key => t = u

\* C14: discovery met the same ticker on two pages and two fetches for it are
\* executing at the same time.
C14_SameKeyTwice ==
  /\ indexer = "kalshi_trades" /\ page_requests = 2
  /\ \E t, u \in DOMAIN tasks :
       /\ t # u /\ tasks[t].key = tasks[u].key
       /\ tasks[t].st = "running" /\ tasks[u].st = "running"

Unsettled(t) == tasks[t].st \in {"queued", "running"}

InDiscovery == indexer \in {"kalshi_markets", "poly_markets"}

\* C15: no future exists while discovery runs, and none after discovery gave
\* an empty work set; a fetch phase starts only from a finished phase with a
\* non-empty work set; a fetch phase reaches its final flush, hands over to
\* the next phase, and run() is left, only when no submitted fetch is still
\* queued or running.
C15_PhasesOrdered ==
  /\ [](/\ InDiscovery => tasks = <<>>
        /\ WorkSet(app, found) = <<>> => tasks = <<>>
        /\ (indexer \in FetchIndexers /\ pc \in {"final", "done"}) =>
             \A t \in DOMAIN tasks : ~Unsettled(t)
        /\ rpc \in {"returned", "raised"} => \A t \in DOMAIN tasks : ~Unsettled(t))
  /\ [][/\ indexer' # indexer =>
             /\ pc = "done" /\ WorkSet(app, found) # <<>>
             /\ \A t \in DOMAIN tasks : ~Unsettled(t)
        /\ finalized' # finalized => \A t \in DOMAIN tasks : ~Unsettled(t)]_vars

\* C15: the third phase left by an exception that waited for the pool: every
\* fetch has ended although the consumer did not get to all of them.
C15_Witness ==
  /\ indexer = "poly_trades" /\ rpc = "raised"
  /\ \A t \in DOMAIN tasks : ~Unsettled(t)
  /\ \E t \in DOMAIN tasks : tasks[t].st = "done"

\* Page requests of discovery that raised.
PageErrors == page_requests - (MaxPages - n_left)

\* C16: once a page request of discovery has raised, discovery and the run are
\* over: the phase has failed, no further page is requested, and no fetch is
\* ever submitted.
C16_PageErrorAbortsRun ==
  /\ []((InDiscovery /\ PageErrors > 0) =>
          /\ pc = "failed" /\ tasks = <<>> /\ PageErrors = 1
          /\ rpc \in {"phases", "raised"})
  /\ [][(InDiscovery /\ PageErrors > 0) =>
          /\ page_requests' = page_requests /\ found' = found
          /\ indexer' = indexer /\ tasks' = <<>>]_vars

\* C16: the second page request raised after the first page had found a
\* market; run() ended with the exception and nothing was fetched.
C16_Witness ==
  /\ InDiscovery /\ PageErrors = 1 /\ page_requests = 2
  /\ WorkSet(app, found) # <<>>
  /\ rpc = "raised" /\ tasks = <<>>

\* C17: never more than max_workers fetches execute at once, and the consumer
\* takes a future only once it has completed, whatever its place in the
\* submission order.
C17_BoundedPool ==
  /\ [](Running(tasks) <= max_workers)
  /\ [][\A t \in DOMAIN tasks :
          (DOMAIN tasks' = DOMAIN tasks /\ tasks'[t].st = "consumed"
             /\ tasks[t].st # "consumed") => tasks[t].st = "done"]_vars

\* C17: the pool is full and a later-submitted item was consumed while an
\* earlier-submitted one is still executing.
C17_Witness ==
  /\ Running(tasks) = max_workers
  /\ \E t, u \in DOMAIN tasks :
       t < u /\ tasks[t].st = "running" /\ tasks[u].st = "consumed"

WorkerStep ==
  /\ DOMAIN tasks' = DOMAIN tasks
  /\ \E t \in DOMAIN tasks :
       tasks'[t].st # tasks[t].st /\ tasks'[t].st \in {"running", "done"}

ConsumerStep ==
  /\ DOMAIN tasks' = DOMAIN tasks
  /\ \E t \in DOMAIN tasks :
       /\ tasks[t].st = "done" /\ tasks'[t].st = "consumed"
       /\ \A u \in DOMAIN tasks \ {t} : tasks'[u] = tasks[u]

\* C18: a step of a worker changes neither the buffer, nor total_saved, nor
\* next_chunk_idx, nor the files; inside the loop of a fetch phase they change
\* only in a step of the consumer, which handles exactly one future.
C18_OnlyConsumerMutates ==
  [][/\ WorkerStep =>
          UNCHANGED <<all_trades, total_saved, next_chunk_idx, dir, writes, appended>>
     /\ (indexer \in FetchIndexers /\ pc = "loop" /\ indexer' = indexer
           /\ <<all_trades, total_saved, next_chunk_idx>>' #
                <<all_trades, total_saved, next_chunk_idx>>) => ConsumerStep]_vars

\* C18: a worker has ended with records of its own while the buffer holds
\* another item's records and another worker is still executing.
C18_Witness ==
  /\ indexer \in FetchIndexers /\ pc = "loop" /\ all_trades # <<>>
  /\ \E t, u \in DOMAIN tasks :
       /\ tasks[t].st = "done" /\ tasks[t].n > 0 /\ ~InBuffer(<<t, 1>>)
       /\ tasks[u].st = "running"

\* ================================================ claims: _parse_token_ids
\* The argument after quote substitution.
Substituted == ReplaceQuotes(clob_token_ids)

\* A necessary condition for a string to be a JSON array.
Bracketed(s) == s # <<>> /\ s[1] = "[" /\ Last(s) = "]"

\* C20 (as claimed): _parse_token_ids never raises, and it returns the empty
\* list for every argument that is not a JSON array after quote substitution.
C20_FailsClosed ==
  parse_pc # "call" =>
    /\ parse_pc # "raised"
    /\ ~Bracketed(Substituted) => token_ids = <<>>

\* C20: a call that an exception left although the argument, a long run of
\* digits, is a JSON number and not an array.
C20_Raises ==
  /\ parse_pc = "raised" /\ parse_exc = "ValueError"
  /\ \A i \in 1..Len(clob_token_ids) : clob_token_ids[i] = "1"

\* ============================================ claims: records, progress, clients
\* The rows of the chunk files the phase wrote, and the number of times a
\* record occurs in a sequence of rows.
RowsWritten == ConcatFiles(ChunkNames, dir)

Occurrences(rec, rows) == Cardinality({i \in 1..Len(rows) : rows[i] = rec})

\* The records the fetches that succeeded returned.
Fetched ==
  {rec \in (DOMAIN tasks) \X (1..MaxFetched) : ~Failed(rec[1]) /\ rec[2] <= tasks[rec[1]].n}

\* C21: when a trades phase is done and none of its writes raised, the chunk
\* files it wrote hold every record a successful fetch returned exactly once
\* and nothing else, and total_saved is their number, whatever the order in
\* which the fetches completed.
C21_FilesHoldFetched ==
  (indexer \in {"kalshi_trades", "poly_trades"} /\ pc = "done" /\ NoWriteFailed) =>
    /\ \A rec \in Fetched : Occurrences(rec, RowsWritten) = 1
    /\ \A i \in 1..Len(RowsWritten) : RowsWritten[i] \in Fetched
    /\ total_saved = Cardinality(Fetched)

\* C21: a finished phase whose first buffered record came from an item
\* submitted after another item that also returned records, with a full chunk
\* and a final partial chunk written.
C21_Witness ==
  /\ indexer \in {"kalshi_trades", "poly_trades"} /\ pc = "done" /\ NoWriteFailed
  /\ Cardinality(ChunkNames) >= 2
  /\ \E t, u \in DOMAIN tasks :
       /\ t < u /\ tasks[t].n > 0 /\ tasks[u].n > 0
       /\ appended # <<>> /\ appended[1] = <<u, 1>>

Consumed == {t \in DOMAIN tasks : tasks[t].st = "consumed"}

\* C22 (as claimed): in a fetch phase the progress counter is the number of
\* futures the consumer has handled, and once the loop has ended it is the
\* size of the submitted work set.
C22_ProgressOncePerItem ==
  indexer \in FetchIndexers =>
    /\ pbar_n = Cardinality(Consumed)
    /\ pc \in {"final", "done"} => pbar_n = Len(tasks)

\* C22: a Kalshi phase that returned with the counter above the number of
\* submitted items: a chunk write raised after the update of the try block.
C22_CountedTwice ==
  /\ indexer = "kalshi_trades" /\ pc = "done" /\ rpc = "returned"
  /\ pbar_n > Len(tasks)
  /\ ~NoWriteFailed

\* C23 (as claimed): every chunk a phase wrote holds at least 1 and at most
\* batch_size (chunk_size) records, also after a chunk write that raised.
C23_ChunksWithinBatch ==
  indexer \in RangeIndexers =>
    \A i \in 1..Len(writes) :
      writes[i].ok =>
        (Len(writes[i].rows) >= 1 /\ Len(writes[i].rows) <= ChunkSizeOf(indexer))

\* C23: a Kalshi run whose flush raised and was caught at the last completion
\* and whose final save then wrote the whole buffer, more than batch_size
\* records, as one chunk.
C23_OversizedFinalChunk ==
  /\ indexer = "kalshi_trades" /\ pc = "done"
  /\ \E i, j \in 1..Len(writes) :
       /\ i < j /\ ~writes[i].ok
       /\ writes[j].ok /\ Len(writes[j].rows) > batch_size
       /\ writes[j].name = writes[i].name

\* C24 (as claimed): a worker's client is open only while its fetch executes,
\* the client of discovery is open only inside discovery, and no client is
\* open once run() has returned or raised.
C24_ClientsClosed ==
  /\ \A t \in DOMAIN tasks : WorkerClient(t) \in clients => tasks[t].st = "running"
  /\ ~InDiscovery => DiscoveryClient \notin clients
  /\ rpc \in {"returned", "raised"} => clients = {}

\* C24: run() left by the exception of a page request with the client of
\* discovery never closed.
C24_DiscoveryClientLeaked ==
  /\ InDiscovery /\ PageErrors = 1 /\ rpc = "raised"
  /\ clients = {DiscoveryClient}

====
